---- MODULE Spec2Model ----
(***************************************************************************)
(* Model of utils/symlink_manager.py (class SymlinkManager): the           *)
(* incremental synchronisation of /share into the project tree by          *)
(* directories and symbolic links, the removal and inspection utilities,   *)
(* and the deep-link pass.                                                 *)
(*                                                                         *)
(* The filesystem is one map from absolute paths (sequences of names) to   *)
(* entries; it holds the share tree and the project tree, so that a        *)
(* destination link into the share tree resolves as the OS resolves it.    *)
(***************************************************************************)
EXTENDS Integers, Sequences, FiniteSets, TLC

\* ------------------------------------------------------------------ bounds
\* Longest chain of symbolic links followed when a path is resolved (ELOOP beyond).
MaxHops == 4
\* What the environment has prepared before the first operation: entries the
\* user has put into the project tree plus OS failure conditions, together.
MaxEnv == 1
\* Entries the environment adds to the share tree during a behaviour.
MaxAdds == 1
\* Operations of the manager in one behaviour.
MaxOps == 2

\* --------------------------------------------------------- configuration
project_root == <<"proj">>
share_directory == <<"share">>
\* A sixth name configured: C12 must not survive it.
six_directories == {"models", "custom_nodes", "input", "output", "user", "web"}
target_directories == {"models", "custom_nodes", "input", "output", "user"}

\* --------------------------------------------------------------- entries
NoEnt == [k |-> "none", to |-> <<>>]
FileEnt == [k |-> "file", to |-> <<>>]
DirEnt == [k |-> "dir", to |-> <<>>]
LinkEnt(t) == [k |-> "link", to |-> t]

Front(p) == SubSeq(p, 1, Len(p) - 1)
Last(p) == p[Len(p)]
IsPrefix(p, q) == Len(p) <= Len(q) /\ SubSeq(q, 1, Len(p)) = p

\* lstat of a physical path: the entry stored there.
Lookup(fs, p) == IF p \in DOMAIN fs THEN fs[p] ELSE NoEnt

Put(fs, p, e) == [q \in (DOMAIN fs) \cup {p} |-> IF q = p THEN e ELSE fs[q]]
Del(fs, p) == [q \in (DOMAIN fs) \ {p} |-> fs[q]]

\* Path resolution as stat() does it: every component, the last one included,
\* is followed through symbolic links.  st is ok (p is the physical path of a
\* file or directory), noent, notdir or loop.
RECURSIVE Canon(_, _, _)
Canon(fs, p, fuel) ==
    IF Len(p) = 1
    THEN IF Lookup(fs, p).k = "none"
         THEN [st |-> "noent", p |-> p]
         ELSE [st |-> "ok", p |-> p]
    ELSE LET par == Canon(fs, Front(p), fuel) IN
         IF par.st # "ok" THEN par
         ELSE IF Lookup(fs, par.p).k # "dir" THEN [st |-> "notdir", p |-> p]
         ELSE LET q == Append(par.p, Last(p))
                  e == Lookup(fs, q)
              IN IF e.k = "none" THEN [st |-> "noent", p |-> q]
                 ELSE IF e.k = "link"
                      THEN IF fuel = 0 THEN [st |-> "loop", p |-> q]
                           ELSE Canon(fs, e.to, fuel - 1)
                      ELSE [st |-> "ok", p |-> q]

\* Path resolution as lstat() does it: the parent is resolved, the last
\* component is not followed.
LPath(fs, p) ==
    IF Len(p) = 1 THEN [st |-> "ok", p |-> p]
    ELSE LET par == Canon(fs, Front(p), MaxHops) IN
         IF par.st # "ok" THEN par
         ELSE IF Lookup(fs, par.p).k # "dir" THEN [st |-> "notdir", p |-> p]
         ELSE [st |-> "ok", p |-> Append(par.p, Last(p))]

\* The entry lstat() reports at p (NoEnt when p cannot be reached).
Lstat(fs, p) ==
    LET l == LPath(fs, p) IN IF l.st = "ok" THEN Lookup(fs, l.p) ELSE NoEnt

\* The entry stat() reports at p.
Stat(fs, p) ==
    LET c == Canon(fs, p, MaxHops) IN IF c.st = "ok" THEN Lookup(fs, c.p) ELSE NoEnt

\* pathlib: Path.exists / is_file / is_dir follow links and answer False on
\* ENOENT, ENOTDIR and ELOOP; Path.is_symlink does not follow the last link.
Exists(fs, p) == Stat(fs, p).k # "none"
IsFile(fs, p) == Stat(fs, p).k = "file"
IsDir(fs, p) == Stat(fs, p).k = "dir"
IsSymlink(fs, p) == Lstat(fs, p).k = "link"

\* An injected OS failure is a pair <<operation, path>>: the operation
\* raises whenever it is called on that path during the pass.
Fails(F, op, p) == <<op, p>> \in F

\* os.mkdir(p), given where lstat finds p: one directory, no parents.
OsMkdirAt(fs, l, p, F) ==
    IF Fails(F, "mkdir", p) THEN [st |-> "err", fs |-> fs]
    ELSE IF l.st = "noent" THEN [st |-> "noent", fs |-> fs]
    ELSE IF l.st # "ok" THEN [st |-> "err", fs |-> fs]
    ELSE IF Lookup(fs, l.p).k # "none" THEN [st |-> "err", fs |-> fs]
    ELSE [st |-> "ok", fs |-> Put(fs, l.p, DirEnt)]

OsMkdir(fs, p, F) == OsMkdirAt(fs, LPath(fs, p), p, F)

\* pathlib Path.mkdir(exist_ok=True) after os.mkdir answered r: an OSError
\* other than FileNotFoundError is swallowed only when p.is_dir().
MkdirDone(fs, r, p, F) ==
    IF r.st = "ok" THEN [ok |-> TRUE, fs |-> r.fs]
    ELSE IF r.st = "noent" THEN [ok |-> FALSE, fs |-> fs]
    ELSE [ok |-> ~Fails(F, "stat", p) /\ IsDir(fs, p), fs |-> fs]

\* self.parent.mkdir(parents=True, exist_ok=True), then self.mkdir(exist_ok=True).
MkdirBelow(up, p, F) ==
    IF ~up.ok THEN up ELSE MkdirDone(up.fs, OsMkdir(up.fs, p, F), p, F)

\* pathlib Path.mkdir(parents=True, exist_ok=True): a missing parent chain is
\* created first.
RECURSIVE Mkdir(_, _, _)
RECURSIVE MkdirFrom(_, _, _, _)
MkdirFrom(fs, r, p, F) ==
    IF r.st = "noent" /\ Len(p) > 1
    THEN MkdirBelow(Mkdir(fs, Front(p), F), p, F)
    ELSE MkdirDone(fs, r, p, F)

Mkdir(fs, p, F) == MkdirFrom(fs, OsMkdir(fs, p, F), p, F)

\* A symlink that replaces whatever entry is in its way, as a link made by
\* "unlink first, then link" would: C1 must not survive it.
SymlinkOver(fs, l, p, target, F) ==
    IF Fails(F, "symlink", p) \/ l.st # "ok"
    THEN [ok |-> FALSE, fs |-> fs]
    ELSE [ok |-> TRUE, fs |-> Put(fs, l.p, LinkEnt(target))]

\* Path.symlink_to(target): os.symlink, which never replaces an entry.
SymlinkAt(fs, l, p, target, F) ==
    IF Fails(F, "symlink", p) \/ l.st # "ok" \/ Lookup(fs, l.p).k # "none"
    THEN [ok |-> FALSE, fs |-> fs]
    ELSE [ok |-> TRUE, fs |-> Put(fs, l.p, LinkEnt(target))]

SymlinkTo(fs, p, target, F) == SymlinkAt(fs, LPath(fs, p), p, target, F)

\* Path.unlink(): removes the entry itself, never what a link points at.
UnlinkAt(fs, l, p, F) ==
    IF Fails(F, "unlink", p) \/ l.st # "ok" \/ Lookup(fs, l.p).k \in {"none", "dir"}
    THEN [ok |-> FALSE, fs |-> fs]
    ELSE [ok |-> TRUE, fs |-> Del(fs, l.p)]

\* The unlink applied to the resolved path, so that a link's target goes and
\* the link stays: C9 must not survive it.
UnlinkResolved(fs, p, F) == UnlinkAt(fs, Canon(fs, p, MaxHops), p, F)

Unlink(fs, p, F) == UnlinkAt(fs, LPath(fs, p), p, F)

\* Path.iterdir(): the names in the directory p resolves to.
ChildNames(fs, d) == {Last(q) : q \in {x \in DOMAIN fs : Len(x) = Len(d) + 1 /\ Front(x) = d}}

IterDirAt(fs, c, p, F) ==
    IF Fails(F, "iterdir", p) \/ c.st # "ok" \/ Lookup(fs, c.p).k # "dir"
    THEN [ok |-> FALSE, names |-> {}]
    ELSE [ok |-> TRUE, names |-> ChildNames(fs, c.p)]

IterDir(fs, p, F) == IterDirAt(fs, Canon(fs, p, MaxHops), p, F)

InSeq(x, s) == \E i \in 1..Len(s) : s[i] = x

\* The enumeration order of a directory (and of the set target_directories)
\* is arbitrary: names are visited in the order they have in ord.
SortBy(ord, S) == SelectSeq(ord, LAMBDA n : n \in S)

\* project_item.relative_to(self.project_root)
RelativeTo(p, root) == SubSeq(p, Len(root) + 1, Len(p))

\* ------------------------------------------------- the synchronisation pass
\* The walk threads one record: the filesystem, the result lists (in the
\* order the code appends to them), the number of OS errors caught so far,
\* exc: an exception is propagating to the nearest handler, and seen: the
\* share entries the loops have taken up (as a file or as a subdirectory), in
\* that order.
Walk0(fs) ==
    [fs |-> fs, links |-> <<>>, dirs |-> <<>>, errs |-> 0, exc |-> FALSE, seen |-> <<>>]
\* lines 123, 132, 318, 335: the loop takes up the entry share_item.
taken_up(s, share_item) == [s EXCEPT !.seen = Append(@, share_item)]
Raise(s) == [s EXCEPT !.exc = TRUE]
\* The handler of lines 138-139 left out: the exception goes on to the
\* caller's loop.  C6 must not survive it.
NotCaught(s) == s

\* except Exception: log, go on (lines 138-139, 362-365).
Caught(s) == IF s.exc THEN [s EXCEPT !.exc = FALSE, !.errs = @ + 1] ELSE s

\* lines 158-169: the link itself, once the parent chain is there.
symlink_in(up, source_path, target_path, F) ==
    IF ~up.ok THEN [ok |-> FALSE, fs |-> up.fs]
    ELSE SymlinkTo(up.fs, target_path, source_path, F)

\* The link made to the bare name of the source, a relative target, in
\* place of its absolute path: C19 must not survive it.
create_relative_symlink(fs, source_path, target_path, F) ==
    symlink_in(Mkdir(fs, Front(target_path), F), <<Last(source_path)>>, target_path, F)

\* A failure handler that clears the target path, removing whatever link is
\* in the way: C20 must not survive it.
create_symlink_or_clear(fs, source_path, target_path, F) ==
    IF symlink_in(Mkdir(fs, Front(target_path), F), source_path, target_path, F).ok
    THEN symlink_in(Mkdir(fs, Front(target_path), F), source_path, target_path, F)
    ELSE [ok |-> FALSE,
          fs |-> Unlink(Mkdir(fs, Front(target_path), F).fs, target_path, F).fs]

\* _create_symlink (lines 143-169): parent chain, then the link; every
\* exception becomes the result False.
create_symlink(fs, source_path, target_path, F) ==
    symlink_in(Mkdir(fs, Front(target_path), F), source_path, target_path, F)

\* line 125: a file is linked only where the project has nothing (exists()
\* follows links, so a dangling link counts as nothing).
file_is_missing(fs, project_item) == ~Exists(fs, project_item)

\* The existence check of line 113 left out, so that mkdir(exist_ok=True)
\* runs and is recorded on every pass: C2 must not survive it.
AlwaysMissing(fs, project_path) == TRUE

\* line 113: the target directory is made only where the project has nothing.
dir_is_missing(fs, project_path) == ~Exists(fs, project_path)

\* The failure of the link creation let out of _create_symlink, to the
\* handler of the enclosing directory: C14 must not survive it.
link_failure_raised(s, c, project_item) ==
    IF c.ok
    THEN [s EXCEPT !.fs = c.fs,
                   !.links = Append(@, RelativeTo(project_item, project_root))]
    ELSE Raise([s EXCEPT !.fs = c.fs])

\* lines 126-128, 328-330, 356-358: the link is recorded when it was made.
linked(s, c, project_item) ==
    [s EXCEPT !.fs = c.fs,
              !.links = IF c.ok THEN Append(@, RelativeTo(project_item, project_root)) ELSE @,
              !.errs = IF c.ok THEN @ ELSE @ + 1]

link_item(s, share_item, project_item, F) ==
    linked(s, create_symlink(s.fs, share_item, project_item, F), project_item)

\* lines 114-115: the directory is recorded when it was made.
made_directory(s, m, project_path) ==
    IF m.ok
    THEN [s EXCEPT !.fs = m.fs,
                   !.dirs = Append(@, RelativeTo(project_path, project_root))]
    ELSE Raise([s EXCEPT !.fs = m.fs])

\* lines 112-116: ensure the target directory exists.
ensure_directory(s, project_path, F) ==
    IF Fails(F, "stat", project_path) THEN Raise(s)
    ELSE IF dir_is_missing(s.fs, project_path)
    THEN made_directory(s, Mkdir(s.fs, project_path, F), project_path)
    ELSE s

\* lines 123-130: one file of the share directory.
sync_file(s, share_item, project_item, F) ==
    IF Fails(F, "stat", project_item) THEN Raise(s)
    ELSE IF file_is_missing(s.fs, project_item)
    THEN link_item(s, share_item, project_item, F)
    ELSE s

RECURSIVE sync_directory_recursive(_, _, _, _, _)
RECURSIVE sync_items(_, _, _, _, _, _)

\* A subdirectory the project already has left alone instead of being
\* entered: C5 must not survive it.
SkipExistingDirectory(s, share_item, project_item, F, ord) ==
    IF Fails(F, "stat", share_item) THEN Raise(s)
    ELSE IF IsFile(s.fs, share_item)
    THEN sync_file(taken_up(s, share_item), share_item, project_item, F)
    ELSE IF ~IsDir(s.fs, share_item) THEN s
    ELSE IF Exists(s.fs, project_item) THEN taken_up(s, share_item)
    ELSE sync_directory_recursive(taken_up(s, share_item), share_item, project_item, F, ord)

\* A subdirectory the project lacks linked as a whole instead of being made
\* and entered: C3 must not survive it.
LinkWholeDirectory(s, share_item, project_item, F, ord) ==
    IF Fails(F, "stat", share_item) THEN Raise(s)
    ELSE IF IsFile(s.fs, share_item)
    THEN sync_file(taken_up(s, share_item), share_item, project_item, F)
    ELSE IF ~IsDir(s.fs, share_item) THEN s
    ELSE IF Exists(s.fs, project_item)
    THEN sync_directory_recursive(taken_up(s, share_item), share_item, project_item, F, ord)
    ELSE link_item(taken_up(s, share_item), share_item, project_item, F)

\* lines 120-136: one entry of the share directory.
sync_item(s, share_item, project_item, F, ord) ==
    IF Fails(F, "stat", share_item) THEN Raise(s)
    ELSE IF IsFile(s.fs, share_item)
    THEN sync_file(taken_up(s, share_item), share_item, project_item, F)
    ELSE IF IsDir(s.fs, share_item)
    THEN sync_directory_recursive(taken_up(s, share_item), share_item, project_item, F, ord)
    ELSE s

\* lines 119-136: the loop over share_path.iterdir(); an exception leaves it.
sync_items(s, share_path, project_path, names, F, ord) ==
    IF names = <<>> \/ s.exc THEN s
    ELSE sync_items(sync_item(s, Append(share_path, Head(names)),
                              Append(project_path, Head(names)), F, ord),
                    share_path, project_path, Tail(names), F, ord)

\* line 119, given what the enumeration answered.
sync_listed(made, it, share_path, project_path, F, ord) ==
    IF ~it.ok THEN Raise(made)
    ELSE sync_items(made, share_path, project_path, SortBy(ord, it.names), F, ord)

\* lines 118-136, once the target directory is ensured.
sync_entered(made, share_path, project_path, F, ord) ==
    IF made.exc THEN made
    ELSE sync_listed(made, IterDir(made.fs, share_path, F), share_path, project_path, F, ord)

\* _sync_directory_recursive (lines 97-141).
sync_directory_recursive(s, share_path, project_path, F, ord) ==
    Caught(sync_entered(ensure_directory(s, project_path, F), share_path, project_path, F, ord))

\* A name also recorded as skipped when the pass made nothing for it, as the
\* words "or fully pre-existing" would have it: C11 must not survive it.
skip_when_nothing_made(r, target_dir, F, ord) ==
    IF Fails(F, "stat", Append(share_directory, target_dir)) THEN [r EXCEPT !.raised = TRUE]
    ELSE IF ~Exists(r.s.fs, Append(share_directory, target_dir))
    THEN [r EXCEPT !.skipped = Append(@, target_dir)]
    ELSE IF sync_directory_recursive(r.s, Append(share_directory, target_dir),
                                     Append(project_root, target_dir), F, ord).fs = r.s.fs
    THEN [r EXCEPT !.skipped = Append(@, target_dir)]
    ELSE [r EXCEPT !.s = sync_directory_recursive(r.s, Append(share_directory, target_dir),
                                                  Append(project_root, target_dir), F, ord)]

\* A name the project lacks linked as a whole when nothing below its share
\* directory is a file, the fallback the specification describes: C16 must
\* not survive it.
link_file_free_target(r, target_dir, F, ord) ==
    IF Fails(F, "stat", Append(share_directory, target_dir)) THEN [r EXCEPT !.raised = TRUE]
    ELSE IF ~Exists(r.s.fs, Append(share_directory, target_dir))
    THEN [r EXCEPT !.skipped = Append(@, target_dir)]
    ELSE IF /\ Lstat(r.s.fs, Append(project_root, target_dir)).k = "none"
            /\ \A p \in DOMAIN r.s.fs :
                  (IsPrefix(Append(share_directory, target_dir), p)) => r.s.fs[p].k = "dir"
    THEN [r EXCEPT !.s = link_item(r.s, Append(share_directory, target_dir),
                                   Append(project_root, target_dir), F)]
    ELSE [r EXCEPT !.s = sync_directory_recursive(r.s, Append(share_directory, target_dir),
                                                  Append(project_root, target_dir), F, ord)]

\* lines 52-63: one name of target_directories.  raised: an exception left
\* create_symlinks (share_path.exists() is outside every try block).
sync_target(r, target_dir, F, ord) ==
    IF Fails(F, "stat", Append(share_directory, target_dir)) THEN [r EXCEPT !.raised = TRUE]
    ELSE IF ~Exists(r.s.fs, Append(share_directory, target_dir))
    THEN [r EXCEPT !.skipped = Append(@, target_dir)]
    ELSE [r EXCEPT !.s = sync_directory_recursive(r.s, Append(share_directory, target_dir),
                                                  Append(project_root, target_dir), F, ord)]

\* lines 51-63: the loop over target_directories.
RECURSIVE sync_targets(_, _, _, _)
sync_targets(r, names, F, ord) ==
    IF names = <<>> \/ r.raised THEN r
    ELSE sync_targets(sync_target(r, Head(names), F, ord), Tail(names), F, ord)

Run0(fs) == [s |-> Walk0(fs), skipped |-> <<>>, raised |-> FALSE]

\* create_symlinks (lines 36-72).
create_symlinks(fs, F, ord) ==
    IF Fails(F, "stat", share_directory) THEN [Run0(fs) EXCEPT !.raised = TRUE]
    ELSE IF ~Exists(fs, share_directory) THEN Run0(fs)
    ELSE sync_targets(Run0(fs), SortBy(ord, target_directories), F, ord)

\* ------------------------------------------------------- the deep-link pass
\* line 323: a file is skipped where the project already has an entry.
deep_file_is_missing(fs, project_item) == ~Exists(fs, project_item)

\* line 348: has_files = any(item.is_file() for item in share_item.iterdir()).
\* ok is FALSE when a type check raises.
RECURSIVE any_file(_, _, _, _)
any_file(fs, share_item, names, F) ==
    IF names = <<>> THEN [ok |-> TRUE, has |-> FALSE]
    ELSE IF Fails(F, "stat", Append(share_item, Head(names))) THEN [ok |-> FALSE, has |-> FALSE]
    ELSE IF IsFile(fs, Append(share_item, Head(names))) THEN [ok |-> TRUE, has |-> TRUE]
    ELSE any_file(fs, share_item, Tail(names), F)

\* any(share_item.iterdir()) in place of line 348: a directory that holds
\* only directories counts as holding files.  C4 must not survive it.
has_entries_in(fs, it, share_item, F, ord) ==
    IF ~it.ok THEN [ok |-> FALSE, has |-> FALSE]
    ELSE [ok |-> TRUE, has |-> it.names # {}]

has_files_in(fs, it, share_item, F, ord) ==
    IF ~it.ok THEN [ok |-> FALSE, has |-> FALSE]
    ELSE any_file(fs, share_item, SortBy(ord, it.names), F)

has_files(fs, share_item, F, ord) ==
    has_files_in(fs, IterDir(fs, share_item, F), share_item, F, ord)

\* lines 318-332: one file of the level.
scan_file(s, share_item, project_item, F) ==
    IF Fails(F, "stat", project_item) THEN Raise(s)
    ELSE IF deep_file_is_missing(s.fs, project_item)
    THEN link_item(s, share_item, project_item, F)
    ELSE s

\* lines 318-332: the files of one level.
RECURSIVE scan_files(_, _, _, _, _)
scan_files(s, share_path, project_path, names, F) ==
    IF names = <<>> \/ s.exc THEN s
    ELSE scan_files(scan_file(taken_up(s, Append(share_path, Head(names))),
                              Append(share_path, Head(names)),
                              Append(project_path, Head(names)), F),
                    share_path, project_path, Tail(names), F)

RECURSIVE scan_and_link_directory(_, _, _, _, _)
RECURSIVE scan_directories(_, _, _, _, _, _)

\* lines 351-353: the directory is made, then scanned.
scan_made(s, md, share_item, project_item, F, ord) ==
    IF ~md.ok THEN Raise([s EXCEPT !.fs = md.fs])
    ELSE scan_and_link_directory([s EXCEPT !.fs = md.fs], share_item, project_item, F, ord)

\* lines 347-360: a subdirectory the project has no entry for.
scan_new(s, hf, share_item, project_item, F, ord) ==
    IF ~hf.ok THEN Raise(s)
    ELSE IF hf.has
    THEN scan_made(s, Mkdir(s.fs, project_item, F), share_item, project_item, F, ord)
    ELSE link_item(s, share_item, project_item, F)

\* lines 336-360: one subdirectory of the level.
scan_directory(s, share_item, project_item, F, ord) ==
    IF Fails(F, "stat", project_item) THEN Raise(s)
    ELSE IF Exists(s.fs, project_item)
    THEN IF Fails(F, "stat", share_item) THEN Raise(s)
         ELSE IF IsDir(s.fs, share_item)
         THEN scan_and_link_directory(s, share_item, project_item, F, ord)
         ELSE s
    ELSE scan_new(s, has_files(s.fs, share_item, F, ord), share_item, project_item, F, ord)

\* lines 335-360: the subdirectories of one level.
scan_directories(s, share_path, project_path, names, F, ord) ==
    IF names = <<>> \/ s.exc THEN s
    ELSE scan_directories(scan_directory(taken_up(s, Append(share_path, Head(names))),
                                         Append(share_path, Head(names)),
                                         Append(project_path, Head(names)), F, ord),
                          share_path, project_path, Tail(names), F, ord)

\* The entries handled as the enumeration gives them, files and
\* subdirectories mixed, as the loop of lines 119-136 does: C15 must not
\* survive it.
RECURSIVE scan_mixed(_, _, _, _, _, _)
scan_mixed(s, share_path, project_path, names, F, ord) ==
    IF names = <<>> \/ s.exc THEN s
    ELSE IF IsFile(s.fs, Append(share_path, Head(names)))
    THEN scan_mixed(scan_file(taken_up(s, Append(share_path, Head(names))),
                              Append(share_path, Head(names)),
                              Append(project_path, Head(names)), F),
                    share_path, project_path, Tail(names), F, ord)
    ELSE scan_mixed(scan_directory(taken_up(s, Append(share_path, Head(names))),
                                   Append(share_path, Head(names)),
                                   Append(project_path, Head(names)), F, ord),
                    share_path, project_path, Tail(names), F, ord)
scan_in_listed_order(s, it, share_path, project_path, F, ord) ==
    IF ~it.ok THEN Raise(s)
    ELSE scan_mixed(s, share_path, project_path, SortBy(ord, it.names), F, ord)

\* lines 311-360, given what the enumeration answered: the entries are typed
\* first, then the files are handled, then the subdirectories.
scan_listed(s, it, share_path, project_path, F, ord) ==
    IF ~it.ok THEN Raise(s)
    ELSE IF \E n \in it.names : Fails(F, "stat", Append(share_path, n)) THEN Raise(s)
    ELSE scan_directories(
             scan_files(s, share_path, project_path,
                        SelectSeq(SortBy(ord, it.names),
                                  LAMBDA n : IsFile(s.fs, Append(share_path, n))), F),
             share_path, project_path,
             SelectSeq(SortBy(ord, it.names), LAMBDA n : IsDir(s.fs, Append(share_path, n))),
             F, ord)

\* _scan_and_link_directory (lines 293-367).
scan_and_link_directory(s, share_path, project_path, F, ord) ==
    Caught(scan_listed(s, IterDir(s.fs, share_path, F), share_path, project_path, F, ord))

\* lines 262-267: the base directory is made (unguarded), then scanned.
deep_scan(r, md, share_base, project_base, F, ord) ==
    IF ~md.ok THEN [r EXCEPT !.raised = TRUE, !.s.fs = md.fs]
    ELSE [r EXCEPT !.s = scan_and_link_directory([r.s EXCEPT !.fs = md.fs],
                                                 share_base, project_base, F, ord)]

\* lines 250-267: one name of target_directories; nothing here is guarded.
deep_target(r, share_base, project_base, F, ord) ==
    IF Fails(F, "stat", share_base) THEN [r EXCEPT !.raised = TRUE]
    ELSE IF ~Exists(r.s.fs, share_base) THEN r
    ELSE IF Fails(F, "stat", project_base) THEN [r EXCEPT !.raised = TRUE]
    ELSE IF IsSymlink(r.s.fs, project_base) THEN r
    ELSE IF ~Exists(r.s.fs, project_base)
    THEN deep_scan(r, Mkdir(r.s.fs, project_base, F), share_base, project_base, F, ord)
    ELSE [r EXCEPT !.s = scan_and_link_directory(r.s, share_base, project_base, F, ord)]

RECURSIVE deep_targets(_, _, _, _)
deep_targets(r, names, F, ord) ==
    IF names = <<>> \/ r.raised THEN r
    ELSE deep_targets(deep_target(r, Append(share_directory, Head(names)),
                                  Append(project_root, Head(names)), F, ord),
                      Tail(names), F, ord)

\* _create_deep_symlinks (lines 240-269).
create_deep_symlinks(fs, F, ord) ==
    deep_targets(Run0(fs), SortBy(ord, target_directories), F, ord)

\* ------------------------------------------------- removal and inspection
\* exists() in place of is_symlink() at line 180 (for an entry that is
\* there, whatever it is): C8 must not survive it.
is_present(fs, project_path) == Lstat(fs, project_path).k # "none"

\* line 180: only a name that is a symbolic link is removed.
is_removable(fs, project_path) == IsSymlink(fs, project_path)

\* lines 181-186: the unlink, its OSError caught.
unlinked(r, u, target_dir) ==
    [r EXCEPT !.fs = u.fs,
              !.removed = IF u.ok THEN Append(@, target_dir) ELSE @,
              !.errs = IF u.ok THEN @ ELSE @ + 1]

\* lines 178-186: one name of target_directories.
remove_target(r, target_dir, F) ==
    IF Fails(F, "stat", Append(project_root, target_dir)) THEN [r EXCEPT !.raised = TRUE]
    ELSE IF is_removable(r.fs, Append(project_root, target_dir))
    THEN unlinked(r, Unlink(r.fs, Append(project_root, target_dir), F), target_dir)
    ELSE r

RECURSIVE remove_targets(_, _, _)
remove_targets(r, names, F) ==
    IF names = <<>> \/ r.raised THEN r
    ELSE remove_targets(remove_target(r, Head(names), F), Tail(names), F)

\* remove_symlinks (lines 171-189).
remove_symlinks(fs, F, ord) ==
    remove_targets([fs |-> fs, removed |-> <<>>, errs |-> 0, raised |-> FALSE],
                   SortBy(ord, target_directories), F)

\* list_symlinks (lines 191-206).
list_symlinks(fs, ord) ==
    SelectSeq(SortBy(ord, target_directories),
              LAMBDA t : IsSymlink(fs, Append(project_root, t)))

\* Path.resolve(): the physical path when the entry can be reached, and the
\* last path reached otherwise.
Resolve(fs, p) == Canon(fs, p, MaxHops).p

\* lines 227-236: the bucket get_symlink_info puts one name in.
info_bucket(fs, target_dir) ==
    IF IsSymlink(fs, Append(project_root, target_dir)) THEN "symlinks"
    ELSE IF Exists(fs, Append(project_root, target_dir)) THEN "existing_directories"
    ELSE "missing_in_share"

InBucket(fs, b) == {t \in target_directories : info_bucket(fs, t) = b}

\* get_symlink_info (lines 208-238).
get_symlink_info(fs) ==
    [project_root |-> project_root,
     share_directory |-> share_directory,
     symlinks |-> [t \in InBucket(fs, "symlinks") |->
                      [target |-> Append(project_root, t),
                       source |-> Resolve(fs, Append(project_root, t)),
                       exists |-> Exists(fs, Append(project_root, t))]],
     existing_directories |->
         [t \in InBucket(fs, "existing_directories") |-> Append(project_root, t)],
     missing_in_share |->
         [t \in InBucket(fs, "missing_in_share") |-> Append(share_directory, t)]]

\* ------------------------------------------------------------ environment
\* The share tree the environment provides: names ending in f are files,
\* every other name is a directory.
SrcUniverse ==
    {<<"models">>, <<"models", "a">>, <<"models", "a", "f">>, <<"models", "a", "d">>,
     <<"models", "b">>, <<"input">>, <<"input", "f">>}
SrcKind(p) == IF Last(p) = "f" THEN FileEnt ELSE DirEnt
SrcTrees == {T \in SUBSET SrcUniverse : \A p \in T : Len(p) > 1 => Front(p) \in T}

InShare(p) == share_directory \o p
InProject(p) == project_root \o p
\* The project path that mirrors a share path.
Mirror(sp) == InProject(RelativeTo(sp, share_directory))
Void == <<"void">>

\* What the user may have put into the project tree before the first
\* operation: a file, a directory, or a link: to the share path of the same
\* name, to nothing, or to the neighbouring name in the share tree or in the
\* project tree.
PreItems ==
    {[p |-> <<"models">>, e |-> e] :
        e \in {FileEnt, DirEnt, LinkEnt(InShare(<<"models">>)), LinkEnt(Void)}}
    \cup {[p |-> <<"models", "a">>, e |-> e] :
        e \in {FileEnt, DirEnt, LinkEnt(InShare(<<"models", "a">>)), LinkEnt(Void),
               LinkEnt(InShare(<<"models", "b">>)), LinkEnt(InProject(<<"models", "b">>))}}
    \cup {[p |-> <<"models", "a", "f">>, e |-> e] :
        e \in {FileEnt, LinkEnt(InShare(<<"models", "a", "f">>)), LinkEnt(Void)}}
    \cup {[p |-> <<"input">>, e |-> LinkEnt(InShare(<<"input">>))]}
    \cup {[p |-> <<"web">>, e |-> e] : e \in {DirEnt, LinkEnt(InShare(<<"models">>))}}

\* The OS failure conditions the environment may impose.
FaultPoints ==
    {<<"stat", InShare(<<"models">>)>>, <<"stat", InProject(<<"models", "a">>)>>,
     <<"iterdir", InShare(<<"models">>)>>, <<"iterdir", InShare(<<"models", "a">>)>>,
     <<"iterdir", InShare(<<"models", "b">>)>>,
     <<"mkdir", InProject(<<"models">>)>>, <<"mkdir", InProject(<<"models", "a">>)>>,
     <<"symlink", InProject(<<"models", "a", "f">>)>>,
     <<"symlink", InProject(<<"models", "a", "d">>)>>,
     <<"unlink", InProject(<<"models">>)>>}

\* A failure condition on a path the share tree T has no counterpart of is
\* never met.
Relevant(f, T) == RelativeTo(f[2], <<"root">>) \in T

\* Sets of at most n elements of S.
RECURSIVE UpTo(_, _)
UpTo(S, n) ==
    IF n = 0 THEN {{}}
    ELSE LET R == UpTo(S, n - 1) IN R \cup {X \cup {e} : X \in R, e \in S}

\* The items must name different paths, none below a non-directory item.
PreOk(I) ==
    \A x \in I, y \in I :
        x # y => /\ x.p # y.p
                 /\ (IsPrefix(x.p, y.p) => x.e = DirEnt)

Ancestors(p) == {SubSeq(p, 1, i) : i \in 1..(Len(p) - 1)}

\* The filesystem made of a share tree T and the project items I (with the
\* directories above them).
MakeFs(hasShare, T, hasProject, I) ==
    LET sp == IF hasShare THEN {share_directory} \cup {InShare(p) : p \in T} ELSE {}
        ip == {InProject(x.p) : x \in I}
        up == UNION {Ancestors(q) : q \in ip} \cup (IF hasProject THEN {project_root} ELSE {})
        ItemAt(q) == CHOOSE x \in I : InProject(x.p) = q
    IN [q \in sp \cup ip \cup up |->
           IF q \in ip THEN ItemAt(q).e
           ELSE IF q \in up THEN DirEnt
           ELSE IF q = share_directory THEN DirEnt
           ELSE SrcKind(q)]

\* The two enumeration orders explored: every pair of names is met in both
\* relative orders.
NameOrder == <<"models", "custom_nodes", "input", "output", "user", "web", "a", "b", "d", "f">>
Reverse(s) == [i \in 1..Len(s) |-> s[Len(s) + 1 - i]]
Orders == {NameOrder, Reverse(NameOrder)}

\* ------------------------------------------------------------------ state
VARIABLES
    fs,      \* the filesystem: physical path -> entry
    faults,  \* the OS failure conditions in force
    last,    \* the manager's last operation: what it was given and returned
    prev,    \* the operation before that one
    added,   \* share paths the environment has added since the last operation
    ops,     \* operations so far
    adds,    \* share entries added so far
    runs     \* the create_symlinks runs under way at the same time, if any
vars == <<fs, faults, last, prev, added, ops, adds, runs>>

NoInfo == [symlinks |-> {}, existing_directories |-> {}, missing_in_share |-> {}]
NoOp ==
    [op |-> "none", pre |-> <<>>, links |-> <<>>, dirs |-> <<>>, skipped |-> <<>>,
     removed |-> <<>>, listed |-> <<>>, info |-> NoInfo, errs |-> 0, raised |-> FALSE,
     added |-> {}, seen |-> <<>>]

Init ==
    /\ \E hasShare \in BOOLEAN, hasProject \in BOOLEAN, T \in SrcTrees,
          I \in UpTo(PreItems, MaxEnv), F \in UpTo(FaultPoints, MaxEnv) :
          /\ Cardinality(I) + Cardinality(F) <= MaxEnv
          /\ PreOk(I)
          /\ hasShare \/ T = {}
          /\ hasProject \/ I = {}
          /\ \A f \in F : Relevant(f, T)
          /\ fs = MakeFs(hasShare, T, hasProject, I)
          /\ faults = F
    /\ last = NoOp
    /\ prev = NoOp
    /\ added = {}
    /\ ops = 0
    /\ adds = 0
    /\ runs = <<>>

Step(rec) ==
    /\ ops' = ops + 1
    /\ prev' = last
    /\ last' = [rec EXCEPT !.pre = fs, !.added = added]
    /\ added' = {}
    /\ UNCHANGED <<faults, adds, runs>>

\* create_symlinks()
Returned(op, r) ==
    /\ ops < MaxOps
    /\ fs' = r.s.fs
    /\ Step([NoOp EXCEPT !.op = op, !.links = r.s.links, !.dirs = r.s.dirs,
                         !.skipped = r.skipped, !.errs = r.s.errs, !.raised = r.raised,
                         !.seen = r.s.seen])

Sync == \E ord \in Orders : Returned("sync", create_symlinks(fs, faults, ord))

\* _create_deep_symlinks()
Deep == \E ord \in Orders : Returned("deep", create_deep_symlinks(fs, faults, ord))

\* remove_symlinks()
Removed(r) ==
    /\ ops < MaxOps
    /\ fs' = r.fs
    /\ Step([NoOp EXCEPT !.op = "remove", !.removed = r.removed,
                         !.errs = r.errs, !.raised = r.raised])

Remove == \E ord \in Orders : Removed(remove_symlinks(fs, faults, ord))

\* list_symlinks()
\* is_symlink() on a top-level name raises what lstat raises (lines 203, 227).
inspect_raises(F) == \E t \in target_directories : Fails(F, "stat", Append(project_root, t))

List ==
    \E ord \in Orders :
        /\ ops < MaxOps
        /\ fs' = fs
        /\ Step([NoOp EXCEPT !.op = "list", !.raised = inspect_raises(faults),
                             !.listed = IF inspect_raises(faults) THEN <<>>
                                        ELSE list_symlinks(fs, ord)])

\* get_symlink_info()
Reported(r) ==
    /\ ops < MaxOps
    /\ fs' = fs
    /\ Step([NoOp EXCEPT !.op = "info", !.raised = inspect_raises(faults),
                         !.info = IF inspect_raises(faults) THEN NoInfo
                                  ELSE [symlinks |-> DOMAIN r.symlinks,
                                        existing_directories |-> DOMAIN r.existing_directories,
                                        missing_in_share |-> DOMAIN r.missing_in_share]])

Info == Reported(get_symlink_info(fs))

\* The environment adds one entry to the share tree between two operations.
ShareAdd ==
    /\ adds < MaxAdds
    /\ last.op # "none"
    /\ ops < MaxOps
    /\ \E p \in SrcUniverse :
          /\ InShare(p) \notin DOMAIN fs
          /\ Lookup(fs, Front(InShare(p))) = DirEnt
          /\ fs' = Put(fs, InShare(p), SrcKind(p))
          /\ added' = added \cup {InShare(p)}
    /\ adds' = adds + 1
    /\ UNCHANGED <<faults, last, prev, ops, runs>>

Next == Sync \/ Deep \/ Remove \/ List \/ Info \/ ShareAdd

Spec == Init /\ [][Next]_vars

\* ------------------------------------------- two runs at the same time
\* Two create_symlinks runs work on the same trees, their filesystem calls
\* interleaved.  A run is where its walk stands: todo, the share entries it
\* still has to handle, the one in hand first (the loops of lines 51 and 119
\* and the recursion of line 134, flattened); pc, whether the existence check
\* for the entry in hand is still to come or has answered "missing"; ord,
\* its enumeration order; s, its walk record (the filesystem field of which
\* is filled in from fs at every step).  Each step is one call that reads or
\* writes the project tree; the reads of the share tree, which no run
\* changes, go with the step they follow.
Runs == {1, 2}

Paths(d, names) == [k \in 1..Len(names) |-> Append(d, names[k])]

\* lines 41-58: the names that have a share counterpart, in the order the
\* run meets them.
Run1(f, ord) ==
    [todo |-> IF Exists(f, share_directory)
              THEN SelectSeq(Paths(share_directory, SortBy(ord, target_directories)),
                             LAMBDA sp : Exists(f, sp))
              ELSE <<>>,
     pc |-> "check", ord |-> ord, s |-> Walk0(<<>>)]

\* The walk record of the run r on the filesystem f, and back.
At(r, f) == [r.s EXCEPT !.fs = f]
Kept(w) == [w EXCEPT !.fs = <<>>]

\* lines 123, 132: an entry met in the loop of line 119 is taken up (a
\* top-level name is handed to _sync_directory_recursive by line 61).
noted(r) ==
    IF Len(Head(r.todo)) > 2 THEN [r EXCEPT !.s = taken_up(@, Head(r.todo))] ELSE r

\* lines 119-136, 138-139: the directory in hand is ensured (w) and
\* enumerated (it): its entries come first in todo; an exception (mkdir or
\* iterdir) is caught and the directory is left.
race_entered(r, w, it) ==
    IF w.exc \/ ~it.ok
    THEN [r EXCEPT !.todo = Tail(@), !.pc = "check", !.s = Kept(Caught(Raise(w)))]
    ELSE [r EXCEPT !.todo = Paths(Head(r.todo), SortBy(r.ord, it.names)) \o Tail(@),
                   !.pc = "check", !.s = Kept(w)]

\* The link in hand recorded whether or not _create_symlink made it: C17
\* must not survive it.
race_recorded_anyway(r, w) ==
    [r EXCEPT !.todo = Tail(@), !.pc = "check",
              !.s = Kept([w EXCEPT !.links =
                             IF InSeq(RelativeTo(Mirror(Head(r.todo)), project_root), @)
                             THEN @
                             ELSE Append(@, RelativeTo(Mirror(Head(r.todo)), project_root))])]

\* lines 126-130: the file in hand is done with, linked or not.
race_linked(r, w) == [r EXCEPT !.todo = Tail(@), !.pc = "check", !.s = Kept(w)]

RaceInit ==
    /\ \E hasShare \in BOOLEAN, hasProject \in BOOLEAN, T \in SrcTrees,
          I \in UpTo(PreItems, MaxEnv) :
          /\ PreOk(I)
          /\ hasShare \/ T = {}
          /\ hasProject \/ I = {}
          /\ fs = MakeFs(hasShare, T, hasProject, I)
    /\ \E o \in [Runs -> Orders] : runs = [i \in Runs |-> Run1(fs, o[i])]
    /\ last = [NoOp EXCEPT !.op = "race", !.pre = fs]
    /\ faults = {}
    /\ prev = NoOp
    /\ added = {}
    /\ ops = 0
    /\ adds = 0

InHand(i) == Head(runs[i].todo)
Checking(i) == runs[i].todo # <<>> /\ runs[i].pc = "check"
Making(i) == runs[i].todo # <<>> /\ runs[i].pc = "make"

\* line 113 (and line 119 where the directory is there): project_path.exists()
RaceEnter ==
    \E i \in Runs :
        /\ Checking(i)
        /\ ~IsFile(fs, InHand(i))
        /\ runs' = [runs EXCEPT ![i] =
                       IF dir_is_missing(fs, Mirror(InHand(i)))
                       THEN [noted(runs[i]) EXCEPT !.pc = "make"]
                       ELSE race_entered(noted(runs[i]), At(noted(runs[i]), fs),
                                         IterDir(fs, InHand(i), {}))]
        /\ UNCHANGED <<fs, faults, last, prev, added, ops, adds>>

\* lines 114-119: project_path.mkdir(parents=True, exist_ok=True)
RaceMade(i, w) ==
    /\ fs' = w.fs
    /\ runs' = [runs EXCEPT ![i] = race_entered(runs[i], w, IterDir(w.fs, InHand(i), {}))]
    /\ UNCHANGED <<faults, last, prev, added, ops, adds>>

RaceMkdir ==
    \E i \in Runs :
        /\ Making(i)
        /\ ~IsFile(fs, InHand(i))
        /\ RaceMade(i, made_directory(At(runs[i], fs), Mkdir(fs, Mirror(InHand(i)), {}),
                                      Mirror(InHand(i))))

\* line 125: project_item.exists()
RaceProbe ==
    \E i \in Runs :
        /\ Checking(i)
        /\ IsFile(fs, InHand(i))
        /\ runs' = [runs EXCEPT ![i] =
                       IF file_is_missing(fs, Mirror(InHand(i)))
                       THEN [noted(runs[i]) EXCEPT !.pc = "make"]
                       ELSE race_linked(noted(runs[i]), noted(runs[i]).s)]
        /\ UNCHANGED <<fs, faults, last, prev, added, ops, adds>>

\* lines 126-128: self._create_symlink(share_item, project_item)
RaceLinked(i, w) ==
    /\ fs' = w.fs
    /\ runs' = [runs EXCEPT ![i] = race_linked(runs[i], w)]
    /\ UNCHANGED <<faults, last, prev, added, ops, adds>>

RaceLink ==
    \E i \in Runs :
        /\ Making(i)
        /\ IsFile(fs, InHand(i))
        /\ RaceLinked(i, link_item(At(runs[i], fs), InHand(i), Mirror(InHand(i)), {}))

RaceNext == RaceEnter \/ RaceMkdir \/ RaceProbe \/ RaceLink

RaceSpec == RaceInit /\ [][RaceNext]_vars

\* ----------------------------------------------------------------- claims
InProjectTree(p) == IsPrefix(project_root, p)
InShareTree(p) == IsPrefix(share_directory, p)
SharePart(f) == [p \in {q \in DOMAIN f : InShareTree(q)} |-> f[p]]
TopLevel(t) == Append(project_root, t)
\* The operation recorded in last met no OS-level failure and returned.
Clean(rec) == rec.errs = 0 /\ ~rec.raised
\* fs is the filesystem the operation recorded in last left behind.
Settled == added = {}
\* The share directories (below share_directory) of a filesystem.
SourceDirs(f) == {p \in DOMAIN f : InShareTree(p) /\ Len(p) > 1 /\ f[p] = DirEnt}
SourceFiles(f) == {p \in DOMAIN f : InShareTree(p) /\ Len(p) > 1 /\ f[p] = FileEnt}
Children(f, d) == {p \in DOMAIN f : Len(p) = Len(d) + 1 /\ Front(p) = d}
Below(f, d) == {p \in DOMAIN f : IsPrefix(d, p) /\ p # d}
\* Every directory above the project path p is absent or a real directory.
PlainAbove(f, p) == \A q \in Ancestors(p) : InProjectTree(q) => Lookup(f, q).k \in {"none", "dir"}

\* C1: every entry of the project tree that exists before create_symlinks
\* runs -- a file, a directory, or a link, dangling or not -- is the same
\* entry (same type, same link target) after the run, whatever the share
\* tree holds and whatever fails.
C1_DestinationPrecedence ==
    last.op = "sync" =>
        \A p \in DOMAIN last.pre : InProjectTree(p) => Lookup(fs, p) = last.pre[p]

\* A run met a dangling link in the project where the share has a file of
\* that name, tried to link there and was refused.
C1_Witness ==
    /\ last.op = "sync"
    /\ faults = {}
    /\ last.errs = 1
    /\ \E p \in SourceFiles(last.pre) :
          /\ Lookup(last.pre, Mirror(p)).k = "link"
          /\ ~Exists(last.pre, Mirror(p))
          /\ Lookup(fs, Mirror(p)) = last.pre[Mirror(p)]

Mixed(f, d) ==
    /\ \E c \in Children(f, d) : f[c] = FileEnt
    /\ \E c \in Children(f, d) : f[c] = DirEnt

\* C3: a share subdirectory that holds a file and a subdirectory, and whose
\* project path has no entry, gets a real directory at its project path (not
\* a link to the share directory), and in it one link per file of the share
\* directory, pointing at that file (create_symlinks, no OS-level failure).
C3_FilePriority ==
    (last.op = "sync" /\ Clean(last) /\ Settled) =>
        \A d \in SourceDirs(last.pre) :
            (Len(d) > 2 /\ Mixed(last.pre, d) /\ Lstat(last.pre, Mirror(d)) = NoEnt)
            => /\ Lstat(fs, Mirror(d)) = DirEnt
               /\ \A c \in Children(last.pre, d) :
                     last.pre[c] = FileEnt => Lstat(fs, Mirror(c)) = LinkEnt(c)

C3_Witness ==
    /\ last.op = "sync" /\ Clean(last) /\ Settled
    /\ \E d \in SourceDirs(last.pre) :
          /\ Len(d) > 2 /\ Mixed(last.pre, d) /\ Lstat(last.pre, Mirror(d)) = NoEnt
          /\ Lstat(fs, Mirror(d)) = DirEnt
          /\ \E c \in Children(last.pre, d) : Lstat(fs, Mirror(c)) = LinkEnt(c)

\* Nothing but directories anywhere below the share directory d.
FileFree(f, d) == \A p \in Below(f, d) : f[p] = DirEnt
\* d is the top of a file-free subtree: it is directly below a top-level
\* name, or its parent is not file-free.
FileFreeTop(f, d) == FileFree(f, d) /\ (Len(d) = 3 \/ ~FileFree(f, Front(d)))
\* d holds no file at any level, before the last operation and after it.
Pure(d) == FileFree(last.pre, d) /\ FileFree(fs, d)
PureTop(d) == Pure(d) /\ FileFreeTop(last.pre, d)
\* The paths (relative to the project root) of s at or below the one of d.
RecordedAt(s, d) ==
    {i \in 1..Len(s) : IsPrefix(RelativeTo(d, share_directory), s[i])}
\* The entries the last operation added at or below the project path p.
NewAt(p) == {q \in (DOMAIN fs) \ (DOMAIN last.pre) : IsPrefix(p, q)}

RealDirectory(f, p) == \A q \in Ancestors(p) \cup {p} : Lookup(f, q) = DirEnt

\* The share file the environment added between the last two operations, the
\* one difference between the share trees they ran on, below a directory
\* whose project path is a real directory.
AddedFile(nf) ==
    /\ last.added = {nf}
    /\ last.pre[nf] = FileEnt
    /\ SharePart(last.pre) = SharePart(Put(prev.pre, nf, FileEnt))
    /\ RealDirectory(last.pre, Mirror(Front(nf)))
TwoRuns ==
    /\ prev.op = "sync" /\ last.op = "sync"
    /\ Clean(prev) /\ Clean(last) /\ Settled
OneNewLink(nf) ==
    /\ last.links = <<RelativeTo(nf, share_directory)>>
    /\ last.dirs = <<>>
    /\ \A p \in DOMAIN last.pre : InProjectTree(p) => Lookup(fs, p) = last.pre[p]

\* C5 as the specification states it: one file added to a share directory
\* whose project path is a real directory makes the next create_symlinks
\* create exactly one link, no directory, and change nothing that was there.
C5_IncrementalSync ==
    TwoRuns => \A nf \in last.added : AddedFile(nf) => OneNewLink(nf)

\* C5, amended: the same, when the project has no entry at the path of the
\* new file; then the link is made at that path and points at the new file.
\* (When the project has an entry there, the run creates nothing.)
C5_IncrementalSyncWhereAbsent ==
    TwoRuns =>
        \A nf \in last.added :
            AddedFile(nf) =>
                IF Lstat(last.pre, Mirror(nf)) = NoEnt
                THEN OneNewLink(nf) /\ Lstat(fs, Mirror(nf)) = LinkEnt(nf)
                ELSE last.links = <<>> /\ last.dirs = <<>> /\ fs = last.pre

\* A second run linked the one file added after the first, inside a
\* directory the first run had made.
C5_Witness ==
    /\ TwoRuns
    /\ \E nf \in last.added :
          /\ AddedFile(nf)
          /\ Lstat(last.pre, Mirror(nf)) = NoEnt
          /\ InSeq(RelativeTo(Front(nf), share_directory), prev.dirs)
          /\ Lstat(fs, Mirror(nf)) = LinkEnt(nf)

\* The share directory whose enumeration is denied, when that is the one
\* OS failure in force.
Denied(sd) == faults = {<<"iterdir", sd>>}

\* The project tree holds no symbolic link: every project path is the
\* physical path of what is there.
NoProjectLinks(f) == \A p \in DOMAIN f : InProjectTree(p) => f[p].k # "link"

C7_NoErrorEscapes == last.op \in {"sync", "deep"} => ~last.raised

OpStep == ops' = ops + 1

\* C9: a top-level name of the project that is a symbolic link stays that
\* link, with that target, over every step that is not remove_symlinks;
\* remove_symlinks, unless it raises or its unlink is refused, makes the name
\* absent; and a top-level name that is a file or a directory is a link after
\* no step.
C9_TopLevelStateMachine ==
    [][\A t \in target_directories :
          /\ (Lookup(fs, TopLevel(t)).k = "link" /\ ~(OpStep /\ last'.op = "remove"))
             => Lookup(fs', TopLevel(t)) = Lookup(fs, TopLevel(t))
          /\ (/\ Lookup(fs, TopLevel(t)).k = "link"
              /\ OpStep /\ last'.op = "remove"
              /\ ~last'.raised /\ ~Fails(faults, "unlink", TopLevel(t)))
             => TopLevel(t) \notin DOMAIN fs'
          /\ Lookup(fs, TopLevel(t)).k \in {"file", "dir"}
             => Lookup(fs', TopLevel(t)).k # "link"]_vars

\* A top-level link outlived a create_symlinks run whose share tree holds
\* that name, and remove_symlinks then made the name absent.
C9_Witness ==
    /\ prev.op = "sync" /\ last.op = "remove"
    /\ \E t \in target_directories :
          /\ Lookup(prev.pre, TopLevel(t)).k = "link"
          /\ Append(share_directory, t) \in DOMAIN prev.pre
          /\ Lookup(last.pre, TopLevel(t)) = Lookup(prev.pre, TopLevel(t))
          /\ TopLevel(t) \notin DOMAIN fs

\* C10 as the specification states it: get_symlink_info puts every top-level
\* name in exactly one bucket: symlinks when the project entry is a link,
\* existing_directories when it exists and is no link, missing_in_share when
\* the name is absent from the project and absent from the share tree; and
\* the call changes nothing.
C10_InfoBuckets ==
    (last.op = "info" /\ ~last.raised /\ Settled) =>
        /\ fs = last.pre
        /\ \A t \in target_directories :
              /\ t \in last.info.symlinks <=> IsSymlink(fs, TopLevel(t))
              /\ t \in last.info.existing_directories
                    <=> (~IsSymlink(fs, TopLevel(t)) /\ Exists(fs, TopLevel(t)))
              /\ t \in last.info.missing_in_share
                    <=> (/\ Lstat(fs, TopLevel(t)) = NoEnt
                         /\ Lstat(fs, Append(share_directory, t)) = NoEnt)
              /\ Cardinality({b \in {"symlinks", "existing_directories", "missing_in_share"} :
                                 t \in last.info[b]}) = 1

\* The last operation recorded a link or a directory at or below the
\* top-level name t.
MadeFor(t) ==
    \/ \E i \in 1..Len(last.links) : last.links[i][1] = t
    \/ \E i \in 1..Len(last.dirs) : last.dirs[i][1] = t
HasSource(f, t) == Exists(f, Append(share_directory, t))

\* C11 as the specification states it: after create_symlinks a top-level
\* name is in the skipped collection exactly when it has no source
\* counterpart or the run created nothing for it; and the run creates no
\* project entry for a name without source counterpart.  Read for the runs
\* that found the share directory.
C11_SkippedNames ==
    (last.op = "sync" /\ ~last.raised /\ Settled /\ Exists(last.pre, share_directory)) =>
        \A t \in target_directories :
            /\ InSeq(t, last.skipped) <=> (~HasSource(last.pre, t) \/ ~MadeFor(t))
            /\ ~HasSource(last.pre, t) => NewAt(TopLevel(t)) = {}

\* C11, amended: after a create_symlinks that returns, a top-level name is
\* in the skipped collection exactly when the share directory exists and
\* holds no entry of that name (a name the project already has in full is
\* not recorded, and nothing is recorded when the share directory itself is
\* missing); a skipped name occurs once; and the run records and creates
\* nothing in the project for a name without source counterpart.
C11_SkippedIffNoSource ==
    (last.op = "sync" /\ ~last.raised /\ Settled) =>
        \A t \in target_directories :
            /\ InSeq(t, last.skipped)
                  <=> (Exists(last.pre, share_directory) /\ ~HasSource(last.pre, t))
            /\ Cardinality({i \in 1..Len(last.skipped) : last.skipped[i] = t}) <= 1
            /\ ~HasSource(last.pre, t) => (~MadeFor(t) /\ NewAt(TopLevel(t)) = {})

\* A run skipped one name, made entries for a second, and found a third in
\* the project already, with nothing to add: only the first is recorded.
C11_Witness ==
    /\ last.op = "sync" /\ Clean(last) /\ Settled
    /\ \E t \in target_directories, u \in target_directories :
          /\ ~HasSource(last.pre, t) /\ InSeq(t, last.skipped)
          /\ HasSource(last.pre, u) /\ ~MadeFor(u) /\ ~InSeq(u, last.skipped)

\* The five names of the specification, and the paths whose entry the last
\* operation changed (created, replaced or removed).
FiveNames == {"models", "custom_nodes", "input", "output", "user"}
Touched == {p \in (DOMAIN fs) \cup (DOMAIN last.pre) : Lookup(fs, p) # Lookup(last.pre, p)}

\* C12: every path below the project root whose entry a create_symlinks or a
\* remove_symlinks call creates, changes or removes lies at or below one of
\* the five configured names; an entry of the project root under any other
\* name (here web, a directory or a link into the share tree) is the same
\* entry after every call; and no call changes anything outside the project
\* and share trees.
C12_FixedTargetSet ==
    last.op \in {"sync", "remove"} =>
        /\ \A p \in Touched :
              /\ InProjectTree(p) \/ InShareTree(p)
              /\ (InProjectTree(p) /\ Len(p) > 1) => p[2] \in FiveNames
        /\ \A p \in DOMAIN last.pre :
              (InProjectTree(p) /\ Len(p) > 1 /\ p[2] \notin FiveNames)
                  => Lookup(fs, p) = last.pre[p]

\* The project root holds a link named web into the share tree; a
\* create_symlinks run made links below models, a remove_symlinks call
\* followed, and web is still that link.
C12_Witness ==
    /\ last.op = "remove" /\ prev.op = "sync" /\ ~last.raised
    /\ prev.links # <<>>
    /\ Lookup(prev.pre, InProject(<<"web">>)) = LinkEnt(InShare(<<"models">>))
    /\ Lookup(fs, InProject(<<"web">>)) = LinkEnt(InShare(<<"models">>))

\* C13: after a create_symlinks run and then a remove_symlinks call, neither
\* meeting an OS failure, no link the create_symlinks run created is left
\* anywhere in the project tree.
C13_RemovesAllCreated ==
    (last.op = "remove" /\ prev.op = "sync" /\ Clean(last) /\ Clean(prev)) =>
        \A p \in DOMAIN fs :
            (InProjectTree(p) /\ fs[p].k = "link") => p \in DOMAIN prev.pre

\* The project tree of fs is the project tree of g everywhere but at and
\* below the path q and in the chain of directories above it: at every
\* sibling of q, of the directories above q, and below them.
SameElsewhere(q, g) ==
    \A p \in (DOMAIN fs) \cup (DOMAIN g) :
        (InProjectTree(p) /\ ~IsPrefix(q, p) /\ ~IsPrefix(p, q))
            => Lookup(fs, p) = Lookup(g, p)
\* No link of the project tree f stands where the share tree has a
\* directory: the walk goes through real directories only, and a project
\* path is the physical path of what is made there.
NoLinkedDirectory(f) ==
    \A p \in DOMAIN f :
        (InProjectTree(p) /\ f[p].k = "link")
            => Lookup(f, InShare(RelativeTo(p, project_root))).k # "dir"
\* The one failure condition in force: creating the link, or the directory,
\* at the project path q fails; the pass walks real directories.
LinkFails(q) == faults = {<<"symlink", q>>} /\ NoLinkedDirectory(last.pre)
DirectoryFails(q) == faults = {<<"mkdir", q>>} /\ NoLinkedDirectory(last.pre)
FaultPaths == {f[2] : f \in faults}

FilesFirst ==
    \A i \in 1..Len(last.seen), j \in 1..Len(last.seen) :
        (/\ Front(last.seen[i]) = Front(last.seen[j])
         /\ IsFile(fs, last.seen[i])
         /\ IsDir(fs, last.seen[j])) => i < j
\* The last operation took up a file and a subdirectory of one share
\* directory.
MixedLevel ==
    \E i \in 1..Len(last.seen), j \in 1..Len(last.seen) :
        /\ Front(last.seen[i]) = Front(last.seen[j])
        /\ IsFile(fs, last.seen[i])
        /\ IsDir(fs, last.seen[j])

\* C15 as the specification states it: in every pass over a share directory,
\* in create_symlinks as in the deep-link pass, every file of the directory
\* is handled before any of its subdirectories, whatever the enumeration
\* order.
C15_FilesBeforeSubdirectories ==
    (last.op \in {"sync", "deep"} /\ Settled) => FilesFirst

\* C15, amended: the deep-link pass handles every file of a share directory
\* before any of its subdirectories, whatever the enumeration order; and in
\* either pass a subdirectory is taken up after the directory that holds it.
C15_FilesFirstInDeepPass ==
    /\ (last.op = "deep" /\ Settled) => FilesFirst
    /\ last.op \in {"sync", "deep"} =>
          \A i \in 1..Len(last.seen), j \in 1..Len(last.seen) :
              (last.seen[i] = Front(last.seen[j]) /\ i # j) => i < j

\* A deep-link pass took up a file and a subdirectory of the same share
\* directory and recorded links.
C15_Witness ==
    /\ last.op = "deep" /\ Settled /\ Clean(last)
    /\ MixedLevel
    /\ last.links # <<>>

\* The top-level name t has a share directory and no entry in the project
\* before the last operation.
AbsentWithSource(t) ==
    /\ Lstat(last.pre, TopLevel(t)) = NoEnt
    /\ Lookup(last.pre, Append(share_directory, t)) = DirEnt

C18_SourceReadOnly ==
    (last.op \in {"sync", "remove"} /\ Settled) => SharePart(fs) = SharePart(last.pre)

\* The project tree of f is empty: at most the project root is there.
EmptyProject(f) == \A p \in DOMAIN f : InProjectTree(p) => p = project_root
\* The links of the project tree of f, as paths relative to the project root.
ProjectLinks(f) ==
    {RelativeTo(p, project_root) : p \in {q \in DOMAIN f : InProjectTree(q) /\ f[q].k = "link"}}

\* C19: after a create_symlinks run from an empty project tree that met no
\* OS failure, every file and every directory of the share tree exists at
\* the same relative path in the project (a directory as a real directory,
\* a file through a link); every link of the project is at the path of a
\* share entry and points at the absolute share path of it; and the created
\* links collection lists these links, each once, and nothing else.
C19_Completeness ==
    (last.op = "sync" /\ Clean(last) /\ Settled /\ EmptyProject(last.pre)) =>
        /\ \A p \in SourceDirs(last.pre) :
              IsDir(fs, Mirror(p)) /\ Lstat(fs, Mirror(p)) = DirEnt
        /\ \A p \in SourceFiles(last.pre) :
              IsFile(fs, Mirror(p)) /\ Lstat(fs, Mirror(p)) = LinkEnt(p)
        /\ \A r \in ProjectLinks(fs) : Lstat(fs, InProject(r)) = LinkEnt(InShare(r))
        /\ {last.links[i] : i \in 1..Len(last.links)} = ProjectLinks(fs)
        /\ Cardinality(ProjectLinks(fs)) = Len(last.links)
        /\ SharePart(fs) = SharePart(last.pre)

\* A run from an empty project tree made directories at two levels and the
\* links of two files.
C19_Witness ==
    /\ last.op = "sync" /\ Clean(last) /\ Settled /\ EmptyProject(last.pre)
    /\ Len(last.links) >= 2
    /\ \E i \in 1..Len(last.dirs) : Len(last.dirs[i]) >= 2

\* The runs of RaceSpec are under way, or over.
Racing == last.op = "race"
AllDone == \A i \in Runs : runs[i].todo = <<>>
RecordedBy(i) == {runs[i].s.links[k] : k \in 1..Len(runs[i].s.links)}
TakenUpBy(i) == {runs[i].s.seen[k] : k \in 1..Len(runs[i].s.seen)}
\* The share entries below the top-level names.
SourceEntries(f) == {p \in DOMAIN f : InShareTree(p) /\ Len(p) > 2}

\* C17: with two create_symlinks runs interleaved, a link is recorded as
\* created by at most one run, and once; what a run recorded is a link in
\* the project (its creation succeeded); no exception is ever left
\* propagating in a run (the loser's failure is counted and swallowed); and
\* when both runs are over, from an empty project tree, each run has taken
\* up every share entry, every share file is linked, recorded by one of the
\* runs, and a run's swallowed failures are links the other run made.
C17_ConcurrentRuns ==
    Racing =>
        /\ \A i \in Runs :
              /\ ~runs[i].s.exc
              /\ Cardinality(RecordedBy(i)) = Len(runs[i].s.links)
              /\ \A r \in RecordedBy(i) : Lstat(fs, InProject(r)).k = "link"
        /\ \A i \in Runs, j \in Runs : i # j => RecordedBy(i) \cap RecordedBy(j) = {}
        /\ (AllDone /\ EmptyProject(last.pre)) =>
              /\ \A i \in Runs :
                    /\ TakenUpBy(i) = SourceEntries(last.pre)
                    /\ runs[i].s.errs + Len(runs[i].s.links)
                          <= Cardinality(SourceFiles(last.pre))
              /\ \A p \in SourceFiles(last.pre) :
                    /\ Lstat(fs, Mirror(p)) = LinkEnt(p)
                    /\ \E i \in Runs : RelativeTo(p, share_directory) \in RecordedBy(i)

\* Both runs are over; each made a link the other one then failed to make,
\* and went on.
C17_Witness ==
    /\ Racing /\ AllDone /\ EmptyProject(last.pre)
    /\ \A i \in Runs : runs[i].s.errs = 1 /\ Len(runs[i].s.links) = 1

====
